---- MODULE Spec2Model ----
(***************************************************************************)
(* Model of the vending-machine change calculator (davidq-alchemy/         *)
(* vending-machine).  The modular version of the program is modelled:      *)
(* parseArgs, makeChange, printChangeInstructions and the main program     *)
(* logic of src/unnamed/part_001, getCurrency of src/currencies.ts and the *)
(* types of src/types.ts.                                                  *)
(*                                                                         *)
(* Numbers read from the command line are kept as exact fractions          *)
(* [num, den]; undefined and NaN are separate records.                     *)
(***************************************************************************)
EXTENDS Integers, Sequences, FiniteSets, TLC

(***************************************************************************)
(* Bounds of the model.                                                    *)
(***************************************************************************)
MaxAmount == 45
MaxCoins == 3
MaxArgs == 4

(***************************************************************************)
(* Types (src/types.ts) and the currency catalog (currencies.json, in the  *)
(* shape documented in src/currencies.ts).                                 *)
(***************************************************************************)
Coin(name, value) == [name |-> name, value |-> value]

Currency(abbreviation, coins, format, divisor) ==
  [abbreviation |-> abbreviation, coins |-> coins, format |-> format, divisor |-> divisor]

USDCoins == <<Coin("Quarter", 25), Coin("Dime", 10), Coin("Nickel", 5), Coin("Penny", 1)>>

\* A format template is kept as the text before and after its <AMOUNT> placeholder.
Format(before, after) == [before |-> before, after |-> after]

USD == Currency("USD", USDCoins, Format("$", ""), 100)

JPY == Currency("JPY", <<Coin("Five", 5), Coin("Ten", 10), Coin("One", 1)>>, Format("", " yen"), 1)

currencies == <<USD, JPY>>

\* The value of an uninitialised `currency` (and of a failed lookup).
NoCurrency == Currency("", <<>>, Format("", ""), 1)

(***************************************************************************)
(* Inputs of the change engine: every coin list of 1..MaxCoins coins over  *)
(* CoinValues (any order, equal values allowed, names unique), and the US  *)
(* coins in every order.                                                   *)
(***************************************************************************)
CoinValues == {1, 2, 3, 5}

CoinLists ==
  UNION { [1..n -> CoinValues] : n \in 1..MaxCoins }

NamedCoins(vals) == [i \in 1..Len(vals) |-> Coin("c" \o ToString(i), vals[i])]

USDOrders == { [i \in 1..Len(USDCoins) |-> USDCoins[p[i]]] : p \in Permutations(1..Len(USDCoins)) }

EngineCurrencies ==
  { Currency("XXX", NamedCoins(vals), Format("", ""), 1) : vals \in CoinLists }
    \cup { Currency("USD", cs, Format("$", ""), 100) : cs \in USDOrders }

VARIABLES
  pc,                \* position of the program
  args,              \* process.argv
  currency,          \* the currency in use (parseArgs result / makeChange parameter)
  cost,              \* item cost in minor units
  payment,           \* payment in minor units
  change,            \* payment - cost
  amount,            \* makeChange parameter
  coinsInOrderOfDescendingValue,
  idx,               \* position of the for-of loop in coinsInOrderOfDescendingValue
  count,
  changeRemaining,
  changeInstructions,
  stdout,
  stderr,
  exitCode

vars == <<pc, args, currency, cost, payment, change, amount, coinsInOrderOfDescendingValue,
          idx, count, changeRemaining, changeInstructions, stdout, stderr, exitCode>>

cliVars == <<args, cost, payment, change, stdout, stderr, exitCode>>

(***************************************************************************)
(* makeChange (part_001:76-93).                                            *)
(***************************************************************************)
\* The comparator handed to Array.prototype.sort: (a, b) => b.value - a.value
CompareAscending(a, b) == a.value - b.value

Compare(a, b) == b.value - a.value

\* Array.prototype.sort is stable: c goes after every element that does not
\* compare greater than it.
RECURSIVE InsertCoin(_, _)
InsertCoin(s, c) ==
  IF s = <<>> THEN <<c>>
  ELSE IF Compare(Head(s), c) > 0 THEN <<c>> \o s
  ELSE <<Head(s)>> \o InsertCoin(Tail(s), c)

RECURSIVE SortCoins(_)
SortCoins(s) ==
  IF s = <<>> THEN <<>>
  ELSE InsertCoin(SortCoins(SubSeq(s, 1, Len(s) - 1)), s[Len(s)])

\* Array.from(currency.coins) without the sort.
Unsorted(coins) == coins

Sorted(coins) == SortCoins(coins)

MakeChangeEnter ==
  /\ pc = "makeChange"
  /\ coinsInOrderOfDescendingValue' = Sorted(currency.coins)
  /\ changeInstructions' = <<>>
  /\ changeRemaining' = amount
  /\ idx' = 1
  /\ count' = 0
  /\ pc' = "for"
  /\ UNCHANGED <<currency, amount>>
  /\ UNCHANGED cliVars

\* `count` declared outside the for loop.
ForCoinNoReset ==
  /\ pc = "for"
  /\ idx <= Len(coinsInOrderOfDescendingValue)
  /\ pc' = "while"
  /\ UNCHANGED <<currency, amount, coinsInOrderOfDescendingValue, idx, count, changeRemaining, changeInstructions>>
  /\ UNCHANGED cliVars

ForCoin ==
  /\ pc = "for"
  /\ idx <= Len(coinsInOrderOfDescendingValue)
  /\ count' = 0
  /\ pc' = "while"
  /\ UNCHANGED <<currency, amount, coinsInOrderOfDescendingValue, idx, changeRemaining, changeInstructions>>
  /\ UNCHANGED cliVars

WhileCondStrict(remaining, coin) == remaining > coin.value

WhileCond(remaining, coin) == remaining >= coin.value

WhileBodyNoSubtract ==
  /\ pc = "while"
  /\ WhileCond(changeRemaining, coinsInOrderOfDescendingValue[idx])
  /\ count' = 1
  /\ UNCHANGED <<pc, currency, amount, coinsInOrderOfDescendingValue, idx, changeRemaining, changeInstructions>>
  /\ UNCHANGED cliVars

WhileBody ==
  /\ pc = "while"
  /\ WhileCond(changeRemaining, coinsInOrderOfDescendingValue[idx])
  /\ count' = count + 1
  /\ changeRemaining' = changeRemaining - coinsInOrderOfDescendingValue[idx].value
  /\ UNCHANGED <<pc, currency, amount, coinsInOrderOfDescendingValue, idx, changeInstructions>>
  /\ UNCHANGED cliVars

PushCondAlways(n) == n >= 0

PushCond(n) == n > 0

PushStep ==
  /\ pc = "while"
  /\ ~WhileCond(changeRemaining, coinsInOrderOfDescendingValue[idx])
  /\ changeInstructions' =
       IF PushCond(count)
       THEN Append(changeInstructions, [coin |-> coinsInOrderOfDescendingValue[idx], count |-> count])
       ELSE changeInstructions
  /\ idx' = idx + 1
  /\ pc' = "for"
  /\ UNCHANGED <<currency, amount, coinsInOrderOfDescendingValue, count, changeRemaining>>
  /\ UNCHANGED cliVars

MakeChangeReturn ==
  /\ pc = "for"
  /\ idx > Len(coinsInOrderOfDescendingValue)
  /\ pc' = "returned"
  /\ UNCHANGED <<currency, amount, coinsInOrderOfDescendingValue, idx, count, changeRemaining, changeInstructions>>
  /\ UNCHANGED cliVars

(***************************************************************************)
(* The change engine on its own: makeChange called with any amount of      *)
(* 0..MaxAmount and any currency of EngineCurrencies.                      *)
(***************************************************************************)
InitEngine ==
  /\ pc = "makeChange"
  /\ args = <<>>
  /\ currency \in EngineCurrencies
  /\ amount \in 0..MaxAmount
  /\ cost = 0
  /\ payment = 0
  /\ change = 0
  /\ coinsInOrderOfDescendingValue = <<>>
  /\ idx = 0
  /\ count = 0
  /\ changeRemaining = 0
  /\ changeInstructions = <<>>
  /\ stdout = <<>>
  /\ stderr = <<>>
  /\ exitCode = 0

NextEngine ==
  \/ MakeChangeEnter
  \/ ForCoin
  \/ WhileBody
  \/ PushStep
  \/ MakeChangeReturn

SpecEngine == InitEngine /\ [][NextEngine]_vars

\* The loop is sequential code: a step that can be taken is taken.
SpecEngineFair == SpecEngine /\ WF_vars(NextEngine)

(***************************************************************************)
(* Command line.  process.argv holds the node binary, the script and then  *)
(* the user's arguments; parseArgs shifts all of them.                     *)
(***************************************************************************)
Tokens == {"--item-cost", "--payment", "--currency", "--help", "-h", "0", "0.595", "2", "JPY", "ZZZ"}

UserArgs(n) == [1..n -> Tokens]

Argv(userArgs) == <<"node", "vending-machine">> \o userArgs

Undefined == [type |-> "undefined"]

NaN == [type |-> "NaN"]

Num(num, den) == [type |-> "number", num |-> num, den |-> den]

\* Number(input) on the tokens of the model; every other string is not numeric.
Number(input) ==
  CASE input = "0" -> Num(0, 1)
    [] input = "0.595" -> Num(119, 200)
    [] input = "2" -> Num(2, 1)
    [] OTHER -> NaN

\* !x for x: number | undefined
Falsy(x) == x.type # "number" \/ x.num = 0

\* Math.floor(x * divisor)
FloorTimes(x, divisor) == (x.num * divisor) \div x.den

\* process.argv.shift() for the value of an option: [input, rest], the input
\* being undefined when nothing is left
ShiftValue(rest) ==
  IF rest = <<>> THEN [defined |-> FALSE, text |-> "undefined", rest |-> <<>>]
  ELSE [defined |-> TRUE, text |-> Head(rest), rest |-> Tail(rest)]

ScanInit ==
  [currencyCode |-> "USD", cost |-> Undefined, payment |-> Undefined, help |-> FALSE,
   exited |-> FALSE, stderr |-> <<>>, argv |-> <<>>]

\* The case without its process.exit(1).
CaseItemCostNoExit(st, input) ==
  LET c == IF input.defined THEN Number(input.text) ELSE NaN
  IN IF Falsy(c)
     THEN [st EXCEPT !.cost = c,
                     !.stderr = Append(@, "Unable to parse '" \o input.text \o "' as item_cost.")]
     ELSE [st EXCEPT !.cost = c]

CaseItemCost(st, input) ==
  LET c == IF input.defined THEN Number(input.text) ELSE NaN
  IN IF Falsy(c)
     THEN [st EXCEPT !.cost = c, !.exited = TRUE,
                     !.stderr = Append(@, "Unable to parse '" \o input.text \o "' as item_cost.")]
     ELSE [st EXCEPT !.cost = c]

CasePayment(st, input) ==
  LET p == IF input.defined THEN Number(input.text) ELSE NaN
  IN IF Falsy(p)
     THEN [st EXCEPT !.payment = p, !.exited = TRUE,
                     !.stderr = Append(@, "Unable to parse '" \o input.text \o "' as payment_amount.")]
     ELSE [st EXCEPT !.payment = p]

CaseCurrency(st, input) ==
  IF ~input.defined \/ input.text = ""
  THEN [st EXCEPT !.currencyCode = input.text, !.exited = TRUE,
                  !.stderr = Append(@, "Unable to parse '" \o input.text \o "' as currency_code")]
  ELSE [st EXCEPT !.currencyCode = input.text]

CaseHelp(st) == [st EXCEPT !.help = TRUE]

\* A token that matches no case of the switch (here: taken as a positional item cost).
NoCasePositional(st, arg) == [st EXCEPT !.cost = Number(arg)]

NoCase(st, arg) == st

\* The while loop of parseArgs; process.exit(1) inside a case ends it.
RECURSIVE ScanArgs(_, _)
ScanArgs(argv, st) ==
  IF argv = <<>> \/ st.exited THEN [st EXCEPT !.argv = argv]
  ELSE LET arg == Head(argv)
           input == ShiftValue(Tail(argv))
       IN CASE arg = "--item-cost" -> ScanArgs(input.rest, CaseItemCost(st, input))
            [] arg = "--payment" -> ScanArgs(input.rest, CasePayment(st, input))
            [] arg = "--currency" -> ScanArgs(input.rest, CaseCurrency(st, input))
            [] arg \in {"--help", "-h"} -> ScanArgs(Tail(argv), CaseHelp(st))
            [] OTHER -> ScanArgs(Tail(argv), NoCase(st, arg))

\* getCurrency (src/currencies.ts): currencies.find(c => c.abbreviation === currencyCode)
getCurrency(catalog, currencyCode) ==
  LET found == SelectSeq(catalog, LAMBDA c : c.abbreviation = currencyCode)
  IN IF found = <<>> THEN NoCurrency ELSE Head(found)

UsageBlock ==
  << "Usage:",
     "  vending-machine --item-cost <item_cost> --payment <payment_amount> [--currency <currency_code>]",
     "Options:",
     "  --item-cost: cost of item in dollars",
     "  --payment:   payment amount in dollars",
     "  --currency:  currency ISO 4217 code" >>

UsageNeeded(c, p, cur, help) == Falsy(c) \/ Falsy(p) \/ cur = NoCurrency \/ help

\* parseArgs as a whole: what it writes, whether it exits, and what it returns.
parseArgs(catalog, argv) ==
  LET st == ScanArgs(argv, ScanInit)
      cur == getCurrency(catalog, st.currencyCode)
      failed(out, err) == [exited |-> TRUE, argv |-> st.argv, stdout |-> out, stderr |-> err,
                           currency |-> NoCurrency, cost |-> 0, payment |-> 0]
  IN IF st.exited THEN failed(<<>>, st.stderr)
     ELSE IF cur = NoCurrency
     THEN failed(<<>>, Append(st.stderr, "Unable to find currency definition for code " \o st.currencyCode))
     ELSE IF UsageNeeded(st.cost, st.payment, cur, st.help) THEN failed(UsageBlock, st.stderr)
     ELSE [exited |-> FALSE, argv |-> st.argv, stdout |-> <<>>, stderr |-> st.stderr, currency |-> cur,
           cost |-> FloorTimes(st.cost, cur.divisor),
           payment |-> FloorTimes(st.payment, cur.divisor)]

engineVars == <<amount, coinsInOrderOfDescendingValue, idx, count, changeRemaining, changeInstructions>>

\* const { currency, cost, payment } = parseArgs(currencies);
ParseArgs ==
  /\ pc = "parseArgs"
  /\ LET r == parseArgs(currencies, args)
     IN /\ args' = r.argv
        /\ stdout' = stdout \o r.stdout
        /\ stderr' = stderr \o r.stderr
        /\ currency' = r.currency
        /\ cost' = r.cost
        /\ payment' = r.payment
        /\ exitCode' = IF r.exited THEN 1 ELSE exitCode
        /\ pc' = IF r.exited THEN "exit" ELSE "change"
  /\ UNCHANGED change
  /\ UNCHANGED engineVars

ChangeOfSwapped(p, c) == c - p

ChangeOf(p, c) == p - c

\* const change = payment - cost; if (change < 0) { ... process.exit(1) }
\* otherwise makeChange(change, currency) is called
CheckChange ==
  /\ pc = "change"
  /\ change' = ChangeOf(payment, cost)
  /\ IF change' < 0
     THEN /\ stderr' = Append(stderr, "Payment is less than cost!")
          /\ exitCode' = 1
          /\ pc' = "exit"
          /\ UNCHANGED amount
     ELSE /\ amount' = change'
          /\ pc' = "makeChange"
          /\ UNCHANGED <<stderr, exitCode>>
  /\ UNCHANGED <<args, currency, cost, payment, stdout>>
  /\ UNCHANGED <<coinsInOrderOfDescendingValue, idx, count, changeRemaining, changeInstructions>>

(***************************************************************************)
(* printChangeInstructions (part_001:95-101).                              *)
(***************************************************************************)
Max(a, b) == IF a >= b THEN a ELSE b

\* instructions.reduce((max, step) => Math.max(step.coin.name.length, max), Number.MIN_VALUE);
\* Number.MIN_VALUE lies between 0 and 1 and is only used when there is no step.
RECURSIVE LongestCoinName(_)
LongestCoinName(instructions) ==
  IF instructions = <<>> THEN 0
  ELSE Max(Len(instructions[Len(instructions)].coin.name),
           LongestCoinName(SubSeq(instructions, 1, Len(instructions) - 1)))

RECURSIVE PadEnd(_, _)
PadEnd(text, width) == IF Len(text) >= width THEN text ELSE PadEnd(text \o " ", width)

StepLine(step, longest) == PadEnd(step.coin.name \o ":", longest + 1) \o " " \o ToString(step.count)

\* Trailing zeros of a fraction digit string are not printed.
RECURSIVE FractionDigits(_, _)
FractionDigits(frac, scale) ==
  IF frac = 0 \/ scale <= 1 THEN ""
  ELSE ToString((frac * 10) \div scale) \o FractionDigits((frac * 10) % scale, scale \div 10)

\* (change / currency.divisor).toString() for a divisor that is a power of ten
AmountText(n, divisor) ==
  IF n % divisor = 0 THEN ToString(n \div divisor)
  ELSE ToString(n \div divisor) \o "." \o FractionDigits(n % divisor, divisor)

TotalLine(n, cur) ==
  "Total Change: " \o cur.format.before \o AmountText(n, cur.divisor) \o cur.format.after

PrintChangeInstructions ==
  /\ pc = "returned"
  /\ LET longest == LongestCoinName(changeInstructions)
     IN stdout' = stdout
                    \o [i \in 1..Len(changeInstructions) |-> StepLine(changeInstructions[i], longest)]
                    \o <<TotalLine(change, currency)>>
  /\ pc' = "exit"
  /\ UNCHANGED <<args, currency, cost, payment, change, stderr, exitCode>>
  /\ UNCHANGED engineVars

(***************************************************************************)
(* The whole program, run on every argument list of at most MaxArgs tokens.*)
(***************************************************************************)
Init ==
  /\ pc = "parseArgs"
  /\ \E n \in 0..MaxArgs : \E userArgs \in UserArgs(n) : args = Argv(userArgs)
  /\ currency = NoCurrency
  /\ cost = 0
  /\ payment = 0
  /\ change = 0
  /\ amount = 0
  /\ coinsInOrderOfDescendingValue = <<>>
  /\ idx = 0
  /\ count = 0
  /\ changeRemaining = 0
  /\ changeInstructions = <<>>
  /\ stdout = <<>>
  /\ stderr = <<>>
  /\ exitCode = 0

Next ==
  \/ ParseArgs
  \/ CheckChange
  \/ MakeChangeEnter
  \/ ForCoin
  \/ WhileBody
  \/ PushStep
  \/ MakeChangeReturn
  \/ PrintChangeInstructions

Spec == Init /\ [][Next]_vars

(***************************************************************************)
(* Properties of the change engine (checked under SpecEngine).             *)
(***************************************************************************)
Returned == pc = "returned"

RECURSIVE Delivered(_)
Delivered(instructions) ==
  IF instructions = <<>> THEN 0
  ELSE Head(instructions).coin.value * Head(instructions).count + Delivered(Tail(instructions))

RECURSIVE TotalCoins(_)
TotalCoins(instructions) ==
  IF instructions = <<>> THEN 0
  ELSE Head(instructions).count + TotalCoins(Tail(instructions))

ValuesOf(coins) == { coins[i].value : i \in 1..Len(coins) }

HasUnitCoin(coins) == 1 \in ValuesOf(coins)

SmallestValue(coins) == CHOOSE v \in ValuesOf(coins) : \A w \in ValuesOf(coins) : v <= w

\* C1: with a coin of value 1 in the coin set, the steps returned by
\* makeChange(amount, coins) sum (coin.value * count) to exactly amount.
C1_UnitCoinFullyRepresents ==
  (Returned /\ HasUnitCoin(currency.coins)) => Delivered(changeInstructions) = amount

C1_Witness ==
  /\ Returned
  /\ HasUnitCoin(currency.coins)
  /\ Len(changeInstructions) >= 3
  /\ Delivered(changeInstructions) = amount

\* C2: the coin values of consecutive steps of a makeChange result are
\* strictly decreasing, also for coin lists given in any order or holding two
\* coins of equal value.
C2_StrictlyDescending ==
  Returned =>
    \A i \in 1..(Len(changeInstructions) - 1) :
      changeInstructions[i].coin.value > changeInstructions[i + 1].coin.value

C2_Witness ==
  /\ Returned
  /\ Len(changeInstructions) >= 2
  /\ Cardinality(ValuesOf(currency.coins)) < Len(currency.coins)
  /\ \E i \in 1..(Len(currency.coins) - 1) : currency.coins[i].value < currency.coins[i + 1].value

\* The fewest coins of 25, 10, 5 and 1 that sum to a.
MinCoinCount(a) ==
  LET Counts == { q + d + n + (a - 25 * q - 10 * d - 5 * n) :
                    <<q, d, n>> \in { t \in (0..(a \div 25)) \X (0..(a \div 10)) \X (0..(a \div 5)) :
                                        25 * t[1] + 10 * t[2] + 5 * t[3] <= a } }
  IN CHOOSE m \in Counts : \A c \in Counts : m <= c

\* C3: for the denominations {25, 10, 5, 1} the number of coins handed out
\* (the sum of the counts) is the minimum number of such coins summing to the
\* amount.
C3_MinimalForUSD ==
  (Returned /\ ValuesOf(currency.coins) = {25, 10, 5, 1} /\ Len(currency.coins) = 4)
    => TotalCoins(changeInstructions) = MinCoinCount(amount)

C3_Witness ==
  /\ Returned
  /\ ValuesOf(currency.coins) = {25, 10, 5, 1}
  /\ amount = 41
  /\ TotalCoins(changeInstructions) = 4
  /\ Len(changeInstructions) = 4

\* The coins of the given list whose value is the amount asked for.
CoinsOfAmount == { i \in 1..Len(currency.coins) : currency.coins[i].value = amount }

\* C7 as stated: for every coin c of the coin set, makeChange(c.value, coins)
\* is the single step {c, 1}.
C7_Original ==
  Returned =>
    \A i \in CoinsOfAmount : changeInstructions = <<[coin |-> currency.coins[i], count |-> 1]>>

\* C7 as amended: makeChange(c.value, coins) is a single step of count 1 whose
\* coin is the first coin of value c.value in the given list (c itself when
\* no other coin has its value).
C7_SingleStepFirstOfValue ==
  (Returned /\ CoinsOfAmount # {}) =>
    LET first == CHOOSE i \in CoinsOfAmount : \A j \in CoinsOfAmount : i <= j
    IN changeInstructions = <<[coin |-> currency.coins[first], count |-> 1]>>

C7_Witness ==
  /\ Returned
  /\ Cardinality(CoinsOfAmount) >= 2
  /\ Len(changeInstructions) = 1
  /\ changeInstructions[1].count = 1

\* The algorithm of the specification on the first k coins of a list:
\* count = floor(remaining / coin.value), a step when count > 0,
\* remaining -= count * coin.value.
RECURSIVE FloorDivision(_, _, _)
FloorDivision(coins, a, k) ==
  IF k = 0 THEN [steps |-> <<>>, remaining |-> a]
  ELSE LET before == FloorDivision(coins, a, k - 1)
           n == before.remaining \div coins[k].value
       IN [steps |-> IF n > 0 THEN Append(before.steps, [coin |-> coins[k], count |-> n])
                     ELSE before.steps,
           remaining |-> before.remaining - n * coins[k].value]

\* C8: the subtraction loop emits the steps of the floor-division algorithm:
\* coin by coin, in descending order, the count is floor(remaining / value),
\* a step is emitted exactly when the count is positive and remaining drops
\* by count * value.
C8_MatchesFloorDivision ==
  /\ pc = "while" =>
       LET before == FloorDivision(coinsInOrderOfDescendingValue, amount, idx - 1)
       IN /\ changeInstructions = before.steps
          /\ changeRemaining + count * coinsInOrderOfDescendingValue[idx].value = before.remaining
  /\ pc = "for" =>
       LET done == FloorDivision(coinsInOrderOfDescendingValue, amount, idx - 1)
       IN /\ changeInstructions = done.steps
          /\ changeRemaining = done.remaining
  /\ Returned =>
       changeInstructions =
         FloorDivision(SortCoins(currency.coins), amount, Len(currency.coins)).steps

C8_Witness ==
  /\ Returned
  /\ Len(changeInstructions) >= 2
  /\ \E i \in 1..Len(changeInstructions) : changeInstructions[i].count >= 3
  /\ Len(changeInstructions) < Len(currency.coins)

\* C9: for a non-negative amount and a non-empty list of coins of positive
\* value, makeChange terminates and returns.
C9_Terminates == <>Returned

C9_Witness ==
  /\ Returned
  /\ amount > 0
  /\ changeInstructions # <<>>
  /\ idx = Len(currency.coins) + 1

\* C10: the value handed out never exceeds the amount, and what is left
\* undelivered is at least 0 and less than the smallest coin value.
C10_RemainderBelowSmallestCoin ==
  Returned =>
    /\ Delivered(changeInstructions) <= amount
    /\ amount - Delivered(changeInstructions) >= 0
    /\ amount - Delivered(changeInstructions) < SmallestValue(currency.coins)

C10_Witness ==
  /\ Returned
  /\ ~HasUnitCoin(currency.coins)
  /\ amount - Delivered(changeInstructions) > 0
  /\ changeInstructions # <<>>

(***************************************************************************)
(* Properties of the whole program (checked under Spec).                   *)
(***************************************************************************)
ValueOptions == {"--item-cost", "--payment", "--currency"}

HelpOptions == {"--help", "-h"}

\* Tokens that match no case of the switch of parseArgs.
Unrecognized == Tokens \ (ValueOptions \cup HelpOptions)

InsufficientPayment == "Payment is less than cost!"

\* The run ended in parseArgs (a validation failure), not at the payment check.
ValidationFailed ==
  /\ pc = "exit"
  /\ exitCode # 0
  /\ \A i \in 1..Len(stderr) : stderr[i] # InsufficientPayment

C5_InsufficientPayment ==
  /\ (pc # "change" /\ payment - cost < 0) =>
       /\ pc = "exit"
       /\ exitCode = 1
       /\ stderr = <<InsufficientPayment>>
       /\ stdout = <<>>
  /\ pc \in {"makeChange", "for", "while", "returned"} => amount >= 0

C5_Witness ==
  /\ pc = "exit"
  /\ payment - cost < 0
  /\ exitCode = 1
  /\ stderr = <<InsufficientPayment>>

InsertAt(s, i, t) == SubSeq(s, 1, i - 1) \o <<t>> \o SubSeq(s, i, Len(s))

\* The parsed options and the exit outcome of two runs of parseArgs agree.
SameOutcome(r1, r2) ==
  /\ r1.exited = r2.exited
  /\ r1.currency = r2.currency
  /\ r1.cost = r2.cost
  /\ r1.payment = r2.payment

\* What the run that has just left parseArgs got from it (primed variables).
ParsedNow ==
  [exited |-> (pc' = "exit"), currency |-> currency', cost |-> cost', payment |-> payment']

\* C6 as stated: inserting an unrecognized token at any position of the
\* argument list changes neither the parsed options nor the exit outcome.
C6_Original ==
  [][ ParseArgs =>
        \A i \in 3..(Len(args) + 1) : \A t \in Unrecognized :
          SameOutcome(parseArgs(currencies, InsertAt(args, i, t)), ParsedNow) ]_vars

\* C6 as amended: inserting an unrecognized token at any position that does
\* not directly follow an --item-cost, --payment or --currency token changes
\* neither the parsed options nor the exit outcome.
C6_InsertOutsideValuePosition ==
  [][ ParseArgs =>
        \A i \in 3..(Len(args) + 1) : \A t \in Unrecognized :
          args[i - 1] \notin ValueOptions =>
            SameOutcome(parseArgs(currencies, InsertAt(args, i, t)), ParsedNow) ]_vars

C6_Witness ==
  /\ pc = "change"
  /\ currency = USD
  /\ cost = 59
  /\ payment = 200
  /\ args = <<>>

====
